---- MODULE Spec2Model ----
(***************************************************************************)
(* Model of razorpay_integration/api/razorpay_payment.py: the              *)
(* RazorpayPayment client (credential probe in the constructor, payment    *)
(* link get-or-create, payment fetch, refund, callback signature check)    *)
(* and the module-level handle_api_response that every gateway call goes   *)
(* through.                                                                *)
(*                                                                         *)
(* Python values are tagged records: [t |-> "None"], [t |-> "int", v],      *)
(* [t |-> "str", v], [t |-> "bool", v], [t |-> "dict", ...].  Absent is a   *)
(* keyword argument (or a dict key) that is not there at all.              *)
(* The gateway is the environment: each operation draws the behaviour of   *)
(* its one deferred call (raise, HTTP response, raw SDK value) with \E.    *)
(***************************************************************************)
EXTENDS Integers, Sequences, FiniteSets, TLC

VARIABLES auth, rzp_client, instance, last

vars == <<auth, rzp_client, instance, last>>

(* ------------------------------ bounds --------------------------------- *)

MaxAmount == 2

(* --------------------------- Python values ------------------------------ *)

None == [t |-> "None"]

Absent == [t |-> "absent"]

PyInt(n) == [t |-> "int", v |-> n]

PyStr(s) == [t |-> "str", v |-> s]

PyBool(b) == [t |-> "bool", v |-> b]

EmptyDict == [t |-> "dict", empty |-> TRUE]

\* an "error" object of a gateway body; code / description are None when
\* the key is missing or null (dict.get returns None in both cases)
ErrDict(c, d) == [t |-> "dict", empty |-> FALSE, code |-> c, description |-> d]

\* Python truthiness, as used by "if x", "not x" and "x or y"
Truthy(x) ==
    CASE x.t = "None" -> FALSE
      [] x.t = "absent" -> FALSE
      [] x.t = "int" -> x.v # 0
      [] x.t = "str" -> x.v # ""
      [] x.t = "bool" -> x.v
      [] x.t = "dict" -> ~x.empty
      [] OTHER -> TRUE

(* ------------------------- gateway behaviours --------------------------- *)

ErrorCodes == {None, PyStr("BAD_REQUEST_ERROR")}

ErrorDescriptions ==
    {None, PyStr("amount must be at least INR 1.00")}

\* what the "error" key of a JSON object can hold
ErrorValues ==
    {Absent, None, EmptyDict, PyStr("oops")}
        \cup {ErrDict(c, d) : c \in ErrorCodes, d \in ErrorDescriptions}

JsonObjects == {[t |-> "dict", empty |-> FALSE, error |-> e, id |-> "res_1"] : e \in ErrorValues}

\* bodies of an HTTP response: not JSON at all, a JSON array, a JSON object
Bodies == {[t |-> "text"], [t |-> "list"]} \cup JsonObjects

HttpStatuses == {200, 401}

RequestsExceptions == {"ConnectionError", "Timeout"}

SdkExceptions == {"BadRequestError", "ServerError"}

\* requests.get / requests.post either raise or return a requests.Response
HttpReplies ==
    {[t |-> "raise", exc |-> e] : e \in RequestsExceptions}
        \cup {[t |-> "http", status |-> s, body |-> b] : s \in HttpStatuses, b \in Bodies}

\* rzp_client.payment.fetch / refund either raise or return a raw value
SdkReplies ==
    {[t |-> "raise", exc |-> e] : e \in SdkExceptions}
        \cup {[t |-> "raw", value |-> v] : v \in JsonObjects}

(* ------------------------------ outcomes -------------------------------- *)

GenericMessage == "Something Bad Happened !"

AmountRequiredMessage == "Amount (INT) is required for creating a payment link !"

PaymentIdFetchMessage == "Please Provide Payment ID for fetching the respective payment !"

PaymentIdRefundMessage ==
    "Please Provide Payment ID for which the amount needs to be refunded !"

SignatureFailedMessage == "Razorpay Payment Signature Verification Failed"

\* a call that returned; events is the order of what happened
Returned(payload, log, events, calls) ==
    [result |-> "return", exc |-> "", msg |-> "", payload |-> payload,
     log |-> log, events |-> events, calls |-> calls]

\* a call that raised exception class exc with message msg
Raised(exc, msg, log, events, calls) ==
    [result |-> "raise", exc |-> exc, msg |-> msg, payload |-> None,
     log |-> log, events |-> events, calls |-> calls]

\* frappe.throw(msg) raises frappe.ValidationError
frappe_throw(msg, log, events, calls) ==
    Raised("ValidationError", msg, log, Append(events, "throw"), calls)

\* functools.partial(fn, ...): the deferred call and what the gateway does
\* when it is invoked
partial(request, reply) == [callable |-> TRUE, request |-> request, reply |-> reply]

(* ------------------------- handle_api_response -------------------------- *)

\* the gateway-error branch, entered with the parsed body of a Response
api_error_check(response, events, calls) ==
    IF response.t # "dict"
    THEN \* list / scalar body: response.get is an AttributeError
         Raised("AttributeError", "object has no attribute 'get'", <<>>,
                Append(events, "raise"), calls)
    ELSE IF Truthy(response.error)
    THEN LET err == response.error
             logged == <<err>>
             ev == Append(events, "log_error")
         IN  IF err.t # "dict"
             THEN Raised("AttributeError", "object has no attribute 'get'", logged,
                         Append(ev, "raise"), calls)
             ELSE IF err.code.t # "str"
             THEN \* None + "- " fails first, whatever the description
                  Raised("TypeError", "unsupported operand type(s) for +", logged,
                         Append(ev, "raise"), calls)
             ELSE IF err.description.t # "str"
             THEN \* (code + "- ") + None
                  Raised("TypeError", "can only concatenate str (not \"NoneType\") to str",
                         logged, Append(ev, "raise"), calls)
             ELSE frappe_throw(err.code.v \o "- " \o err.description.v, logged, ev, calls)
    ELSE Returned(response, <<>>, Append(events, "return"), calls)

\* handle_api_response passing the text of the caught exception on to the
\* caller instead of the generic message
handle_api_response_leaking(_func) ==
    IF ~_func.callable
    THEN Returned(None, <<>>, <<"handle_api_response", "return">>, <<>>)
    ELSE LET reply == _func.reply
             calls == <<_func.request>>
             events == <<"handle_api_response", "call">>
         IN  IF reply.t = "raise"
             THEN frappe_throw(reply.exc, <<PyStr(reply.exc)>>,
                               Append(events, "log_error"), calls)
             ELSE IF reply.t = "http"
             THEN IF reply.body.t = "text"
                  THEN Raised("JSONDecodeError", "Expecting value", <<>>,
                              Append(events, "raise"), calls)
                  ELSE api_error_check(reply.body, events, calls)
             ELSE Returned(reply.value, <<>>, Append(events, "return"), calls)

handle_api_response(_func) ==
    IF ~_func.callable
    THEN Returned(None, <<>>, <<"handle_api_response", "return">>, <<>>)
    ELSE LET reply == _func.reply
             calls == <<_func.request>>
             events == <<"handle_api_response", "call">>
         IN  IF reply.t = "raise"
             THEN frappe_throw(GenericMessage, <<PyStr(reply.exc)>>,
                               Append(events, "log_error"), calls)
             ELSE IF reply.t = "http"
             THEN IF reply.body.t = "text"
                  THEN \* response.json() on a body that is not JSON
                       Raised("JSONDecodeError", "Expecting value", <<>>,
                              Append(events, "raise"), calls)
                  ELSE api_error_check(reply.body, events, calls)
             ELSE Returned(reply.value, <<>>, Append(events, "return"), calls)

(* --------------------------- RazorpayPayment ---------------------------- *)

ApiKeys == {"rzp_test_key"}

ApiSecrets == {"secret_1", "secret_2"}

\* Auth = namedtuple("Auth", ["api_key", "api_secret"])
Auth(api_key, api_secret) == [api_key |-> api_key, api_secret |-> api_secret]

NoAuth == Auth("", "")

base_api_url == "https://api.razorpay.com/v1/"

\* a direct HTTP request made with the requests library
HttpRequest(method, url, self_auth, json) ==
    [method |-> method, target |-> url, auth |-> self_auth, args |-> <<>>, json |-> json]

\* a call of a method of the SDK client (self.rzp_client.payment.<name>)
SdkCall(name, self_auth, args) ==
    [method |-> "SDK", target |-> name, auth |-> self_auth, args |-> args, json |-> None]

\* a keyword argument that was not passed takes its default
Default(x, d) == IF x = Absent THEN d ELSE x

validate_razorpay_creds(self_auth, reply) ==
    handle_api_response(
        partial(HttpRequest("GET", base_api_url \o "customers?count=1", self_auth, None),
                reply))

\* frappe.utils.get_url("razorpay_payment_status") of the hosting site
status_callback_url == PyStr("https://site.local/razorpay_payment_status")

\* the conversion with a factor of 10
link_amount_tenfold(amount) == amount * 10

\* amount *= 100 (line 92)
link_amount_minor_units(amount) == amount * 100

\* the json= body of the create request
create_payload(amount, callback_url, reference_id, uuid) ==
    [amount |-> PyInt(amount),
     callback_url |-> IF Truthy(callback_url) THEN callback_url ELSE status_callback_url,
     callback_method |-> "get",
     currency |-> "INR",
     customer |-> [name |-> "", email |-> "", phone |-> ""],
     description |-> "",
     expire_by |-> 0,
     notify |-> [sms |-> FALSE, email |-> FALSE],
     reference_id |-> IF Truthy(reference_id) THEN reference_id ELSE PyStr(uuid),
     notes |-> EmptyDict]

\* "not amount or amount < 1"
amount_rejected(amount) == ~Truthy(amount) \/ amount.v < 1

\* kw: the keyword arguments forwarded by get_or_create_payment_link
_create_payment_link(self_auth, api_endpoint, kw, uuid, reply) ==
    IF kw.amount = Absent
    THEN \* amount is a required positional parameter of _create_payment_link
         Raised("TypeError", "missing 1 required positional argument: 'amount'",
                <<>>, <<"raise">>, <<>>)
    ELSE IF amount_rejected(kw.amount)
    THEN frappe_throw(AmountRequiredMessage, <<>>, <<>>, <<>>)
    ELSE handle_api_response(
             partial(HttpRequest("POST", base_api_url \o api_endpoint, self_auth,
                                 create_payload(link_amount_minor_units(kw.amount.v),
                                                Default(kw.callback_url, PyStr("")),
                                                Default(kw.reference_id, PyStr("")),
                                                uuid)),
                     reply))

\* the URL of the fetch of one payment link (line 138)
payment_link_url(api_endpoint, payment_link_id) ==
    base_api_url \o "/" \o api_endpoint \o "/" \o payment_link_id

\* get_or_create_payment_link that validates and creates whatever the id
get_or_create_always_create(self_auth, payment_link_id, kw, uuid, reply) ==
    _create_payment_link(self_auth, "payment_links", kw, uuid, reply)

get_or_create_payment_link(self_auth, payment_link_id, kw, uuid, reply) ==
    LET api_endpoint == "payment_links"
        id == Default(payment_link_id, PyStr(""))
    IN  IF Truthy(id)
        THEN handle_api_response(
                 partial(HttpRequest("GET", payment_link_url(api_endpoint, id.v),
                                     self_auth, None),
                         reply))
        ELSE _create_payment_link(self_auth, api_endpoint, kw, uuid, reply)

\* get_payment without the check of the payment id
get_payment_unchecked(self_auth, payment_id, reply) ==
    handle_api_response(partial(SdkCall("payment.fetch", self_auth, <<payment_id>>), reply))

get_payment(self_auth, payment_id, reply) ==
    IF ~Truthy(payment_id)
    THEN frappe_throw(PaymentIdFetchMessage, <<>>, <<>>, <<>>)
    ELSE handle_api_response(partial(SdkCall("payment.fetch", self_auth, <<payment_id>>), reply))

\* refund_amt *= 100 (line 176)
refund_amount_minor_units(refund_amt) == refund_amt * 100

\* refund arguments that carry the amount for every integer, zero included
refund_args_with_zero(payment_id, refund_amt) ==
    IF refund_amt.t # "int"
    THEN <<payment_id>>
    ELSE <<payment_id, PyInt(refund_amount_minor_units(refund_amt.v))>>

\* the positional arguments bound into the refund partial (lines 172-177)
refund_args(payment_id, refund_amt) ==
    IF ~Truthy(refund_amt)
    THEN <<payment_id>>
    ELSE <<payment_id, PyInt(refund_amount_minor_units(refund_amt.v))>>

refund_payment(self_auth, payment_id, refund_amt, reply) ==
    IF ~Truthy(payment_id)
    THEN frappe_throw(PaymentIdRefundMessage, <<>>, <<>>, <<>>)
    ELSE handle_api_response(
             partial(SdkCall("payment.refund", self_auth,
                             refund_args(payment_id, Default(refund_amt, PyInt(0)))),
                     reply))

(* ------------------------- signature verification ----------------------- *)

\* hmac.new(key, msg, sha256).hexdigest(): HMAC-SHA256 idealised as a
\* collision-free function of (key, message); the result is an ASCII string
hexdigest(key, msg) == "hmac_sha256(" \o key \o "," \o msg \o ")"

\* the canonical message (lines 192-195)
signature_message(link_id, reference_id, status, payment_id) ==
    link_id \o "|" \o reference_id \o "|" \o status \o "|" \o payment_id

\* a str holding a character outside ASCII (written here by its code point)
NonAsciiSignatures == {"sig_U+00E9"}

IsAscii(s) == s \notin NonAsciiSignatures

verify_payment_signature(self_auth, link_id, ref_id, status, payment_id, signature, raise_err) ==
    LET message == signature_message(link_id, ref_id, status, payment_id)
        digest == hexdigest(self_auth.api_secret, message)
    IN  IF ~IsAscii(signature)
        THEN \* hmac.compare_digest accepts only ASCII str arguments
             Raised("TypeError", "comparing strings with non-ASCII characters is not supported",
                    <<>>, <<"raise">>, <<>>)
        ELSE IF digest # signature
        THEN IF raise_err
             THEN frappe_throw(SignatureFailedMessage, <<>>, <<>>, <<>>)
             ELSE Returned(PyBool(FALSE), <<>>, <<"return">>, <<>>)
        ELSE Returned(PyBool(TRUE), <<>>, <<"return">>, <<>>)

(* ------------------------------- inputs --------------------------------- *)

PaymentLinkIds == {Absent, PyStr(""), PyStr("plink_1")}

Amounts == {Absent, None} \cup {PyInt(n) : n \in -1..MaxAmount}

CallbackUrls == {Absent, PyStr("https://shop.local/done")}

ReferenceIds == {Absent, PyStr("order-42")}

\* str(uuid4()) is evaluated only when the create request is built without a
\* reference id; NoUuid stands for "not evaluated"
NoUuid == "-"

Uuids == {"uuid-1", "uuid-2"}

uuid4_values(payment_link_id, amount, reference_id) ==
    IF Truthy(payment_link_id) \/ amount = Absent \/ amount_rejected(amount)
          \/ Truthy(reference_id)
    THEN {NoUuid}
    ELSE Uuids

PaymentIds == {None, PyStr(""), PyStr("pay_123")}

RefundAmounts == {Absent, None} \cup {PyInt(n) : n \in -1..MaxAmount}

CallbackLinkIds == {"plink_1", "plink_2"}

CallbackReferenceIds == {"order-42"}

CallbackStatuses == {"paid"}

CallbackPaymentIds == {"pay_123"}

\* signatures a callback can carry: digests under either credential of the
\* fields in either order, an unrelated hex string, a non-ASCII string
Signatures ==
    {hexdigest(k, m) :
        k \in ApiSecrets \cup ApiKeys,
        m \in {signature_message(a, b, c, d) :
                  a \in CallbackLinkIds, b \in CallbackReferenceIds,
                  c \in CallbackStatuses, d \in CallbackPaymentIds}
              \cup {signature_message(b, a, c, d) :
                  a \in CallbackLinkIds, b \in CallbackReferenceIds,
                  c \in CallbackStatuses, d \in CallbackPaymentIds}}
        \cup {"deadbeef"} \cup NonAsciiSignatures

(* ------------------------------- actions -------------------------------- *)

Init ==
    /\ auth = NoAuth
    /\ rzp_client = FALSE
    /\ instance = "none"
    /\ last = [op |-> "none", args |-> <<>>, out |-> Returned(None, <<>>, <<>>, <<>>)]

\* RazorpayPayment(api_key, api_secret): __init__ sets auth, probes the
\* credentials and only then creates the SDK client; when the probe raises,
\* the exception leaves __init__ and the caller gets no instance
Construct ==
    /\ instance = "none"
    /\ \E api_key \in ApiKeys, api_secret \in ApiSecrets, reply \in HttpReplies :
         LET self_auth == Auth(api_key, api_secret)
             out == validate_razorpay_creds(self_auth, reply)
         IN  /\ auth' = self_auth
             /\ rzp_client' = (out.result = "return")
             /\ instance' = IF out.result = "return" THEN "returned" ELSE "none"
             /\ last' = [op |-> "__init__",
                         args |-> [api_key |-> api_key, api_secret |-> api_secret,
                                   reply |-> reply],
                         out |-> out]

GetOrCreatePaymentLink ==
    /\ instance = "returned"
    /\ \E payment_link_id \in PaymentLinkIds, amount \in Amounts,
          callback_url \in CallbackUrls, reference_id \in ReferenceIds,
          reply \in HttpReplies :
       \E uuid \in uuid4_values(payment_link_id, amount, reference_id) :
         LET kw == [amount |-> amount, callback_url |-> callback_url,
                    reference_id |-> reference_id]
         IN  last' = [op |-> "get_or_create_payment_link",
                      args |-> [payment_link_id |-> payment_link_id, kw |-> kw,
                                uuid |-> uuid, reply |-> reply],
                      out |-> get_or_create_payment_link(auth, payment_link_id, kw,
                                                         uuid, reply)]
    /\ UNCHANGED <<auth, rzp_client, instance>>

GetPayment ==
    /\ instance = "returned"
    /\ \E payment_id \in PaymentIds, reply \in SdkReplies :
         last' = [op |-> "get_payment",
                  args |-> [payment_id |-> payment_id, reply |-> reply],
                  out |-> get_payment(auth, payment_id, reply)]
    /\ UNCHANGED <<auth, rzp_client, instance>>

RefundPayment ==
    /\ instance = "returned"
    /\ \E payment_id \in PaymentIds, refund_amt \in RefundAmounts, reply \in SdkReplies :
         last' = [op |-> "refund_payment",
                  args |-> [payment_id |-> payment_id, refund_amt |-> refund_amt,
                            reply |-> reply],
                  out |-> refund_payment(auth, payment_id, refund_amt, reply)]
    /\ UNCHANGED <<auth, rzp_client, instance>>

VerifyPaymentSignature ==
    /\ instance = "returned"
    /\ \E link_id \in CallbackLinkIds, reference_id \in CallbackReferenceIds,
          status \in CallbackStatuses, payment_id \in CallbackPaymentIds,
          signature \in Signatures, raise_err \in BOOLEAN :
         last' = [op |-> "verify_payment_signature",
                  args |-> [link_id |-> link_id, reference_id |-> reference_id,
                            status |-> status, payment_id |-> payment_id,
                            signature |-> signature, raise_err |-> raise_err],
                  out |-> verify_payment_signature(auth, link_id, reference_id, status,
                                                   payment_id, signature, raise_err)]
    /\ UNCHANGED <<auth, rzp_client, instance>>

Next ==
    \/ Construct
    \/ GetOrCreatePaymentLink
    \/ GetPayment
    \/ RefundPayment
    \/ VerifyPaymentSignature

Spec == Init /\ [][Next]_vars

(* ------------------------------ properties ----------------------------- *)

NetworkOps == {"__init__", "get_or_create_payment_link", "get_payment", "refund_payment"}

\* the last operation reached handle_api_response
Entered ==
    /\ last.op \in NetworkOps
    /\ Len(last.out.events) > 0
    /\ last.out.events[1] = "handle_api_response"

\* an error object that carries a code and a description
WellFormedError(e) ==
    /\ e.t = "dict"
    /\ ~e.empty
    /\ e.code.t = "str"
    /\ e.description.t = "str"

BusinessMessage(e) == e.code.v \o "- " \o e.description.v

BusinessMessages ==
    {BusinessMessage(ErrDict(c, d)) : c \in ErrorCodes \ {None}, d \in ErrorDescriptions \ {None}}

\* C1: every gateway call that goes through handle_api_response ends as a
\* returned payload, as the generic transport failure, or as the business
\* failure built from the error's code and description, and as nothing else.
C1_ExactlyThreeOutcomes ==
    Entered =>
        \/ last.out.result = "return" /\ last.out.payload # None
        \/ /\ last.out.result = "raise"
           /\ last.out.exc = "ValidationError"
           /\ last.out.msg = GenericMessage
        \/ /\ last.out.result = "raise"
           /\ last.out.exc = "ValidationError"
           /\ last.out.msg \in BusinessMessages

\* C2: when the credential probe ends in a transport error or a non-success
\* HTTP status, the constructor raises, rzp_client is not initialized and no
\* instance is returned.
C2_FailedProbeFailsConstruction ==
    (/\ last.op = "__init__"
     /\ \/ last.args.reply.t = "raise"
        \/ last.args.reply.t = "http" /\ last.args.reply.status \notin 200..299)
    => /\ last.out.result = "raise"
       /\ ~rzp_client
       /\ instance = "none"

\* C3: without a payment_link_id, a missing, zero or negative amount fails
\* with the validation error and issues no network call.
C3_NonPositiveAmountIsValidationError ==
    (/\ last.op = "get_or_create_payment_link"
     /\ ~Truthy(last.args.payment_link_id)
     /\ \/ last.args.kw.amount \in {Absent, None}
        \/ last.args.kw.amount.t = "int" /\ last.args.kw.amount.v <= 0)
    => /\ last.out.result = "raise"
       /\ last.out.exc = "ValidationError"
       /\ last.out.msg = AmountRequiredMessage
       /\ last.out.calls = <<>>

\* the value handle_api_response inspects: the parsed body or the raw result
ResultValue(reply) == IF reply.t = "http" THEN reply.body ELSE reply.value

\* C4: whenever the parsed body or the raw SDK result contains an
\* error object, the error is logged, then a failure with the message
\* code + "- " + description is raised, and the payload is never returned.
C4_EmbeddedErrorAlwaysRaised ==
    (/\ Entered
     /\ last.args.reply.t \in {"http", "raw"}
     /\ ResultValue(last.args.reply).t = "dict"
     /\ WellFormedError(ResultValue(last.args.reply).error))
    => /\ last.out.result = "raise"
       /\ last.out.msg = BusinessMessage(ResultValue(last.args.reply).error)
       /\ last.out.log = <<ResultValue(last.args.reply).error>>
       /\ last.out.events = <<"handle_api_response", "call", "log_error", "throw">>

\* the digest the gateway computes for the callback fields of the last call
ExpectedSignature ==
    hexdigest(auth.api_secret,
              last.args.link_id \o "|" \o last.args.reference_id \o "|"
                  \o last.args.status \o "|" \o last.args.payment_id)

\* C5: verify_payment_signature returns true exactly when the signature is
\* the hex HMAC of link_id|reference_id|status|payment_id under api_secret;
\* a mismatch returns false when raise_err is false and raises the
\* verification failure when it is true; no network call, no log entry.
C5_SignatureVerdict ==
    last.op = "verify_payment_signature" =>
        /\ last.args.signature = ExpectedSignature
           => last.out.result = "return" /\ last.out.payload = PyBool(TRUE)
        /\ (last.args.signature # ExpectedSignature /\ ~last.args.raise_err)
           => last.out.result = "return" /\ last.out.payload = PyBool(FALSE)
        /\ (last.args.signature # ExpectedSignature /\ last.args.raise_err)
           => /\ last.out.result = "raise"
              /\ last.out.exc = "ValidationError"
              /\ last.out.msg = SignatureFailedMessage
        /\ last.out.calls = <<>>
        /\ last.out.log = <<>>

\* the one request of the fetch path for the id of the last call
FetchRequest ==
    HttpRequest("GET", base_api_url \o "/payment_links/" \o last.args.payment_link_id.v,
                auth, None)

\* C6: with a non-empty payment_link_id the only call is one GET for that id
\* and the outcome is decided by the gateway's answer alone (no amount
\* validation, no effect of the request fields); without an id there is at
\* most one call, a POST to payment_links, and never a GET.
C6_MutuallyExclusivePaths ==
    last.op = "get_or_create_payment_link" =>
        IF Truthy(last.args.payment_link_id)
        THEN /\ last.out.calls = <<FetchRequest>>
             /\ Entered
             /\ last.out.msg # AmountRequiredMessage
             /\ last.args.reply.t = "raise" => last.out.msg = GenericMessage
             /\ (/\ last.args.reply.t = "http"
                 /\ last.args.reply.body.t = "dict"
                 /\ ~Truthy(last.args.reply.body.error))
                => /\ last.out.result = "return"
                   /\ last.out.payload = last.args.reply.body
        ELSE /\ Len(last.out.calls) <= 1
             /\ \A i \in 1..Len(last.out.calls) :
                  /\ last.out.calls[i].method = "POST"
                  /\ last.out.calls[i].target = base_api_url \o "payment_links"
             /\ Len(last.out.calls) = 1 => ~amount_rejected(last.args.kw.amount)

C6_Witness ==
    /\ last.op = "get_or_create_payment_link"
    /\ Truthy(last.args.payment_link_id)
    /\ last.args.kw.amount = PyInt(0)
    /\ last.args.kw.reference_id # Absent
    /\ last.out.result = "return"
    /\ last.out.calls = <<FetchRequest>>

\* C7: get_payment and refund_payment with an empty or None payment id fail
\* with the validation error before anything else: no gateway or SDK call,
\* handle_api_response not entered, nothing logged.
C7_EmptyPaymentIdFailsFast ==
    (/\ last.op \in {"get_payment", "refund_payment"}
     /\ ~Truthy(last.args.payment_id))
    => /\ last.out.result = "raise"
       /\ last.out.exc = "ValidationError"
       /\ last.out.msg = IF last.op = "get_payment"
                         THEN PaymentIdFetchMessage
                         ELSE PaymentIdRefundMessage
       /\ last.out.calls = <<>>
       /\ last.out.log = <<>>
       /\ last.out.events = <<"throw">>

C7_Witness ==
    /\ last.op = "get_payment"
    /\ last.args.payment_id = PyStr("")
    /\ last.args.reply.t = "raw"
    /\ last.out.result = "raise"
    /\ last.out.calls = <<>>

\* C8: for every integer amount a > 0 given to payment-link creation, the
\* create request is sent with amount a * 100 and currency "INR".
C8_TransmittedAmount ==
    (/\ last.op = "get_or_create_payment_link"
     /\ ~Truthy(last.args.payment_link_id)
     /\ last.args.kw.amount.t = "int"
     /\ last.args.kw.amount.v > 0)
    => /\ Len(last.out.calls) = 1
       /\ last.out.calls[1].method = "POST"
       /\ last.out.calls[1].json.amount = PyInt(last.args.kw.amount.v * 100)
       /\ last.out.calls[1].json.currency = "INR"

C8_Witness ==
    /\ last.op = "get_or_create_payment_link"
    /\ last.args.kw.amount = PyInt(MaxAmount)
    /\ Len(last.out.calls) = 1
    /\ last.out.calls[1].method = "POST"
    /\ last.out.calls[1].json.amount = PyInt(MaxAmount * 100)

\* C9: refund_payment with a non-empty payment id issues exactly one refund
\* call; a zero or absent amount sends the payment id alone, a positive
\* amount sends amount * 100, and no amount is held back by a local check.
C9_RefundShape ==
    (/\ last.op = "refund_payment"
     /\ Truthy(last.args.payment_id))
    => /\ Len(last.out.calls) = 1
       /\ last.out.calls[1].method = "SDK"
       /\ last.out.calls[1].target = "payment.refund"
       /\ last.args.refund_amt \in {Absent, None, PyInt(0)}
          => last.out.calls[1].args = <<last.args.payment_id>>
       /\ (last.args.refund_amt.t = "int" /\ last.args.refund_amt.v > 0)
          => last.out.calls[1].args =
                 <<last.args.payment_id, PyInt(last.args.refund_amt.v * 100)>>

C9_Witness ==
    /\ last.op = "refund_payment"
    /\ last.args.payment_id = PyStr("pay_123")
    /\ last.args.refund_amt = PyInt(0)
    /\ last.out.calls # <<>>
    /\ last.out.calls[1].args = <<PyStr("pay_123")>>

\* C10: whenever the deferred call raises, the exception is logged first and
\* then the failure is raised, always with the generic message, carrying no
\* detail of the exception and returning no payload.
C10_TransportFailureIsGeneric ==
    (Entered /\ last.args.reply.t = "raise")
    => /\ last.out.result = "raise"
       /\ last.out.exc = "ValidationError"
       /\ last.out.msg = GenericMessage
       /\ last.out.payload = None
       /\ last.out.log = <<PyStr(last.args.reply.exc)>>
       /\ last.out.events = <<"handle_api_response", "call", "log_error", "throw">>

C10_Witness ==
    /\ last.op = "refund_payment"
    /\ last.args.reply = [t |-> "raise", exc |-> "ServerError"]
    /\ last.out.result = "raise"
    /\ last.out.msg = GenericMessage
    /\ last.out.log = <<PyStr("ServerError")>>

====
